---------------------------- MODULE Spec2Model ----------------------------
(***************************************************************************)
(* A model of tools/upload.py, the Cloudflare R2 image uploader.           *)
(*                                                                         *)
(* Strings are sequences of one-character strings, so that the path and    *)
(* key operations of the program (name, stem, suffix, lower, rsplit,       *)
(* f-string concatenation) are computed and not assumed.  The bucket is a  *)
(* function from keys to stored objects.  One run of main() is a sequence  *)
(* of steps: the dispatch (lines 153-167), one step per upload_file call   *)
(* of the loop (lines 170-172) and the Markdown summary (lines 174-179).   *)
(* Runs follow one another against the same bucket.                        *)
(***************************************************************************)
EXTENDS Integers, Sequences, FiniteSets, TLC

VARIABLES
    bucket,     \* the remote store: key -> stored object
    runs,       \* number of runs of main() started so far
    pc,         \* "idle" | "upload" | "summary" | "exit"
    args,       \* the argparse namespace of the current run
    paths,      \* main's paths (the result of collect_files)
    idx,        \* position of the for loop of line 170 in paths
    urls,       \* main's urls
    out,        \* lines printed on the standard output by the current run
    err,        \* lines printed on the error stream by the current run
    ops,        \* storage-client calls issued by the current run, in order
    status,     \* exit status of the current run (-1 while it runs)
    raised,     \* the run ended in an uncaught exception (a trace is printed)
    rin,        \* resize_image under test: <<width, height, max_width>>
    rout        \* resize_image under test: its outcome

vars == <<bucket, runs, pc, args, paths, idx, urls, out, err, ops, status,
          raised, rin, rout>>

mainVars == <<bucket, runs, pc, args, paths, idx, urls, out, err, ops,
              status, raised>>

---------------------------------------------------------------------------
(* Bounds of the model.                                                    *)

MaxRuns == 2

PageSize == 2

MaxDim == 6

---------------------------------------------------------------------------
(* Characters and strings.                                                 *)

\* The characters in use, in code-point order (Python compares str by
\* code point: '.' < '/' < digits < upper case < lower case).
AsciiOrder ==
    <<".", "/", "B", "G", "N", "P", "a", "b", "c", "d", "e", "f", "g",
      "h", "i", "j", "m", "n", "p", "r", "s", "t", "w", "x", "z">>

Code(c) == CHOOSE i \in 1..Len(AsciiOrder) : AsciiOrder[i] = c

\* str.lower() on one character.
LowerChar(c) ==
    CASE c = "B" -> "b"
      [] c = "G" -> "g"
      [] c = "N" -> "n"
      [] c = "P" -> "p"
      [] OTHER -> c

\* str.lower()
Lower(s) == [i \in 1..Len(s) |-> LowerChar(s[i])]

\* s < t for str: lexicographic by code point.
RECURSIVE StrLess(_, _)
StrLess(s, t) ==
    IF t = <<>> THEN FALSE
    ELSE IF s = <<>> THEN TRUE
    ELSE IF Code(Head(s)) # Code(Head(t)) THEN Code(Head(s)) < Code(Head(t))
    ELSE StrLess(Tail(s), Tail(t))

\* str.rfind(c): the last position of c in s, 0 when there is none
\* (positions from 1; Python's -1 is 0 here).
RFind(s, c) ==
    LET hits == {i \in 1..Len(s) : s[i] = c}
    IN  IF hits = {} THEN 0 ELSE CHOOSE i \in hits : \A j \in hits : j <= i

\* sorted() of a finite set of strings.
RECURSIVE SortedSeq(_)
SortedSeq(S) ==
    IF S = {} THEN <<>>
    ELSE LET least == CHOOSE s \in S : \A t \in S : t = s \/ StrLess(s, t)
         IN  <<least>> \o SortedSeq(S \ {least})

---------------------------------------------------------------------------
(* pathlib.                                                                *)

\* PurePath.name: the final component.
Name(p) == SubSeq(p, RFind(p, "/") + 1, Len(p))

\* PurePath.parent ("" for a path of one component, the working directory).
Parent(p) == SubSeq(p, 1, RFind(p, "/") - 1)

\* PurePath.suffix: from the last dot of the name, unless the name starts
\* or ends with it.
Suffix(p) ==
    LET name == Name(p)
        i == RFind(name, ".")
    IN  IF 1 < i /\ i < Len(name) THEN SubSeq(name, i, Len(name)) ELSE <<>>

\* PurePath.stem: the name without its suffix.
Stem(p) ==
    LET name == Name(p)
        i == RFind(name, ".")
    IN  IF 1 < i /\ i < Len(name) THEN SubSeq(name, 1, i - 1) ELSE name

---------------------------------------------------------------------------
(* The local file system the runs read: a fixed tree.                      *)
(*                                                                         *)
(*   a.png          image 2400x1600                                        *)
(*   d/             directory                                              *)
(*   d/B.PNG        image 4x2                                              *)
(*   d/a.jpg        image 800x600                                          *)
(*   d/c.txt        a text file                                            *)
(*   d/n/           directory                                              *)
(*   d/n/s.gif/     directory whose name ends in an image extension        *)
(*   d/n/x.jpg      image 4000x1                                           *)
(*   m.jpg, zz      do not exist                                           *)

NotImage == <<0, 0>>

P_a_png   == <<"a", ".", "p", "n", "g">>
P_d       == <<"d">>
P_d_B_PNG == <<"d", "/", "B", ".", "P", "N", "G">>
P_d_a_jpg == <<"d", "/", "a", ".", "j", "p", "g">>
P_d_c_txt == <<"d", "/", "c", ".", "t", "x", "t">>
P_d_n     == <<"d", "/", "n">>
P_d_n_s   == <<"d", "/", "n", "/", "s", ".", "g", "i", "f">>
P_d_n_x   == <<"d", "/", "n", "/", "x", ".", "j", "p", "g">>
P_m_jpg   == <<"m", ".", "j", "p", "g">>
P_zz      == <<"z", "z">>

FileSystem ==
    { [path |-> P_a_png,   kind |-> "file", size |-> <<2400, 1600>>],
      [path |-> P_d,       kind |-> "dir",  size |-> NotImage],
      [path |-> P_d_B_PNG, kind |-> "file", size |-> <<4, 2>>],
      [path |-> P_d_a_jpg, kind |-> "file", size |-> <<800, 600>>],
      [path |-> P_d_c_txt, kind |-> "file", size |-> NotImage],
      [path |-> P_d_n,     kind |-> "dir",  size |-> NotImage],
      [path |-> P_d_n_s,   kind |-> "dir",  size |-> NotImage],
      [path |-> P_d_n_x,   kind |-> "file", size |-> <<4000, 1>>] }

Entry(p) == CHOOSE e \in FileSystem : e.path = p

\* Path.exists()
Exists(p) == \E e \in FileSystem : e.path = p

\* Path.is_dir()
IsDir(p) == \E e \in FileSystem : e.path = p /\ e.kind = "dir"

\* Path.is_file()
IsFile(p) == \E e \in FileSystem : e.path = p /\ e.kind = "file"

\* Path.iterdir(): the immediate entries of a directory, files or not.
IterDir(d) == {e.path : e \in {x \in FileSystem : Parent(x.path) = d}}

---------------------------------------------------------------------------
(* Python floats (IEEE 754 binary64), as far as resize_image uses them.    *)
(* A positive float is [mant, exp]: mant is its significand as a sequence  *)
(* of MantBits bits, most significant first and starting with 1, and its   *)
(* value is mant * 2^exp.  TLC's integers have 32 bits: the operators      *)
(* below keep every intermediate value under 2^31 for sizes under 2^15.    *)

MantBits == 53

RECURSIVE Pow2(_)
Pow2(n) == IF n = 0 THEN 1 ELSE 2 * Pow2(n - 1)

\* The value of a bit sequence, most significant bit first (below 2^31).
RECURSIVE BitsToInt(_)
BitsToInt(bits) ==
    IF Len(bits) = 0 THEN 0
    ELSE IF Len(bits) = 1 THEN bits[1]
    ELSE LET k == Len(bits) \div 2
         IN  BitsToInt(SubSeq(bits, 1, k)) * Pow2(Len(bits) - k)
             + BitsToInt(SubSeq(bits, k + 1, Len(bits)))

\* The number of bits of x.
RECURSIVE BitLen(_)
BitLen(x) == IF x = 0 THEN 0 ELSE 1 + BitLen(x \div 2)

\* bits + 1 (one bit longer when every bit is 1).
Inc(bits) ==
    LET zeros == {i \in 1..Len(bits) : bits[i] = 0}
    IN  IF zeros = {} THEN <<1>> \o [i \in 1..Len(bits) |-> 0]
        ELSE LET k == CHOOSE i \in zeros : \A j \in zeros : j <= i
             IN  [i \in 1..Len(bits) |->
                     IF i < k THEN bits[i] ELSE IF i = k THEN 1 ELSE 0]

\* Round-half-to-even of a significand to MantBits bits: guard is the first
\* dropped bit, sticky says whether anything non-zero follows it.
RoundEven(bits, exp, guard, sticky) ==
    IF guard = 1 /\ (sticky \/ bits[Len(bits)] = 1)
    THEN LET up == Inc(bits)
         IN  IF Len(up) > Len(bits)
             THEN [mant |-> SubSeq(up, 1, Len(bits)), exp |-> exp + 1]
             ELSE [mant |-> up, exp |-> exp]
    ELSE [mant |-> bits, exp |-> exp]

\* The number of zero bits after the binary point of r / w (0 < r < w).
RECURSIVE LeadZeros(_, _)
LeadZeros(r, w) == IF 2 * r >= w THEN 0 ELSE 1 + LeadZeros(2 * r, w)

\* 2^e mod w, by squaring (every product stays below w * w).
RECURSIVE PowMod(_, _)
PowMod(e, w) ==
    IF e = 0 THEN 1 % w
    ELSE LET half == PowMod(e \div 2, w)
             sq == (half * half) % w
         IN  IF e % 2 = 1 THEN (2 * sq) % w ELSE sq

\* Bit i after the binary point of r / w (0 < r < w), and what is left of
\* the dividend after n bits.
QuotBit(r, w, i) == (2 * ((r * PowMod(i - 1, w)) % w)) \div w

QuotRem(r, w, n) == (r * PowMod(n, w)) % w

\* m / w for ints 0 < m < w: the correctly rounded quotient.
FDiv(m, w) ==
    LET z == LeadZeros(m, w)
        r == m * Pow2(z)
    IN  RoundEven([i \in 1..MantBits |-> QuotBit(r, w, i)], -(z + MantBits),
                  QuotBit(r, w, MantBits + 1), QuotRem(r, w, MantBits + 1) # 0)

\* A bit sequence as digits of 15 bits, least significant digit first.
Digits(bits) ==
    LET n == Len(bits)
        lo(k) == IF n - 15 * k + 1 > 1 THEN n - 15 * k + 1 ELSE 1
    IN  [k \in 1..((n + 14) \div 15) |->
            BitsToInt(SubSeq(bits, lo(k), n - 15 * (k - 1)))]

\* ds * h + carry on digits, least significant digit first (h below 2^15).
RECURSIVE MulDigits(_, _, _)
MulDigits(ds, h, carry) ==
    IF ds = <<>> THEN IF carry = 0 THEN <<>> ELSE <<carry>>
    ELSE LET t == Head(ds) * h + carry
         IN  <<t % Pow2(15)>> \o MulDigits(Tail(ds), h, t \div Pow2(15))

\* The bits of a digit sequence whose last digit is not 0.
DigitsToBits(ds) ==
    LET n == 15 * (Len(ds) - 1) + BitLen(ds[Len(ds)])
    IN  [i \in 1..n |->
            (ds[((n - i) \div 15) + 1] \div Pow2((n - i) % 15)) % 2]

\* h * f for an int h > 0 and a float f: the correctly rounded product.
FMul(h, f) ==
    LET prod == DigitsToBits(MulDigits(Digits(f.mant), h, 0))
        drop == Len(prod) - MantBits
    IN  IF drop <= 0 THEN [mant |-> prod, exp |-> f.exp]
        ELSE RoundEven(SubSeq(prod, 1, MantBits), f.exp + drop,
                       prod[MantBits + 1],
                       \E i \in (MantBits + 2)..Len(prod) : prod[i] = 1)

\* int(f): truncation toward zero.
Trunc(f) ==
    LET n == Len(f.mant) + f.exp
    IN  IF n <= 0 THEN 0
        ELSE IF f.exp >= 0 THEN BitsToInt(f.mant) * Pow2(f.exp)
        ELSE BitsToInt(SubSeq(f.mant, 1, n))

---------------------------------------------------------------------------
(* resize_image.                                                           *)

\* Image.resize(size, LANCZOS): Pillow refuses a size with a side below 1
\* ("height and width must be > 0").
ImageResize(size) ==
    IF size[1] < 1 \/ size[2] < 1 THEN [ok |-> FALSE, size |-> size]
    ELSE [ok |-> TRUE, size |-> size]

\* The size of the image resize_image encodes, for a source of size
\* <<w, h>> (lines 63-66); ok is FALSE when the resize raises.
ResizedSize(w, h, max_width) ==
    IF w > max_width
    THEN ImageResize(<<max_width, Trunc(FMul(h, FDiv(max_width, w)))>>)
    ELSE [ok |-> TRUE, size |-> <<w, h>>]

---------------------------------------------------------------------------
(* Command line and configuration.                                         *)

\* Python's None (no string is a sequence holding this element).
None == <<"None">>

\* Truth value of an optional string: None and "" are false.
Truthy(x) == x # None /\ x # <<>>

\* R2_PUBLIC_URL, after rstrip("/") (line 44).
PUBLIC_URL == <<"h", "/", "/", "r">>

\* argparse defaults of --width and --quality (lines 146-147).
DefaultWidth == 1920

DefaultQuality == 80

\* The positional arguments tried: none, a missing file alone, a missing
\* file before an existing one, two files with the same stem, an image
\* before a text file, and the same path twice.
FileLists ==
    { <<>>,
      <<P_m_jpg>>,
      <<P_m_jpg, P_a_png>>,
      <<P_a_png, P_d_a_jpg>>,
      <<P_a_png, P_d_c_txt>>,
      <<P_d_a_jpg, P_d_a_jpg>> }

Dirs == {None, P_d, P_d_n, P_zz}

DefaultPrefix == <<"i">>

Prefixes == {DefaultPrefix, <<"b", "/", "c">>}

K_i_a_jpg == <<"i", "/", "a", ".", "j", "p", "g">>

DeleteKeys == {None, <<>>, K_i_a_jpg}

\* The namespaces parse_args can return (lines 142-151), within the sets
\* above.
Args ==
    [files : FileLists, dir : Dirs, prefix : Prefixes, width : {DefaultWidth},
     quality : {DefaultQuality}, no_resize : BOOLEAN, list : BOOLEAN,
     delete : DeleteKeys]

---------------------------------------------------------------------------
(* collect_files.                                                          *)

Ext(chars) == <<".">> \o chars

IMAGE_EXTENSIONS ==
    { Ext(<<"j", "p", "g">>), Ext(<<"j", "p", "e", "g">>),
      Ext(<<"p", "n", "g">>), Ext(<<"w", "e", "b", "p">>),
      Ext(<<"b", "m", "p">>), Ext(<<"t", "i", "f", "f">>),
      Ext(<<"g", "i", "f">>) }

\* The test of line 130.
HasImageSuffix(p) == Lower(Suffix(p)) \in IMAGE_EXTENSIONS

\* Lines 126-131: the entries of the directory that pass line 130, sorted.
DirMatches(directory) ==
    IF Truthy(directory) /\ IsDir(directory)
    THEN SelectSeq(SortedSeq(IterDir(directory)), HasImageSuffix)
    ELSE <<>>

\* Lines 132-137: the explicit paths that exist, and the SKIP lines.
RECURSIVE ExplicitFiles(_)
ExplicitFiles(files) ==
    IF files = <<>> THEN [paths |-> <<>>, err |-> <<>>]
    ELSE LET f == Head(files)
             rest == ExplicitFiles(Tail(files))
         IN  IF Exists(f)
             THEN [paths |-> <<f>> \o rest.paths, err |-> rest.err]
             ELSE [paths |-> rest.paths, err |-> <<<<"SKIP", f>>>> \o rest.err]

\* collect_files(files, directory): the paths returned and the lines it
\* prints on the error stream.
collect_files(files, directory) ==
    LET e == ExplicitFiles(files)
    IN  [paths |-> DirMatches(directory) \o e.paths, err |-> e.err]

---------------------------------------------------------------------------
(* upload_file.                                                            *)

\* mimetypes.guess_type(str(file_path))[0] or "application/octet-stream":
\* by the extension, case-insensitively.
GuessType(p) ==
    LET e == Lower(Suffix(p))
    IN  CASE e \in {Ext(<<"j", "p", "g">>), Ext(<<"j", "p", "e", "g">>)}
               -> "image/jpeg"
          [] e = Ext(<<"p", "n", "g">>) -> "image/png"
          [] e = Ext(<<"g", "i", "f">>) -> "image/gif"
          [] e = Ext(<<"t", "x", "t">>) -> "text/plain"
          [] OTHER -> "application/octet-stream"

\* ResizedSize of every image of the file system under the default maximum
\* width, computed once.
ResizedDefault ==
    [e \in {x \in FileSystem : x.size # NotImage} |->
        ResizedSize(e.size[1], e.size[2], DefaultWidth)]

\* resize_image(file_path, max_width, quality): Image.open raises on what
\* is no image file, Image.resize on an empty size; else the JPEG bytes.
resize_image(p, max_width, quality) ==
    IF ~IsFile(p) \/ Entry(p).size = NotImage THEN [ok |-> FALSE]
    ELSE LET r == IF max_width = DefaultWidth THEN ResizedDefault[Entry(p)]
                  ELSE ResizedSize(Entry(p).size[1], Entry(p).size[2],
                                   max_width)
         IN  IF ~r.ok THEN [ok |-> FALSE]
             ELSE [ok |-> TRUE,
                   data |-> [src |-> p, fmt |-> "JPEG", size |-> r.size,
                             quality |-> quality],
                   ctype |-> "image/jpeg"]

\* Lines 82-88: the body, its content type and the extension of the key;
\* ok is FALSE when reading or decoding the file raises.
Prepare(p, a) ==
    IF a.no_resize
    THEN IF ~IsFile(p) THEN [ok |-> FALSE]
         ELSE [ok |-> TRUE,
               data |-> [src |-> p, fmt |-> "raw", size |-> Entry(p).size,
                         quality |-> 0],
               ctype |-> GuessType(p), ext |-> Suffix(p)]
    ELSE LET r == resize_image(p, a.width, a.quality)
         IN  IF ~r.ok THEN [ok |-> FALSE]
             ELSE [ok |-> TRUE, data |-> r.data, ctype |-> r.ctype,
                   ext |-> Ext(<<"j", "p", "g">>)]

\* A slip: the whole name instead of the stem.
KeyOfNameForStem(prefix, p, ext) == prefix \o <<"/">> \o Name(p) \o ext

\* Line 90: key = f"{prefix}/{file_path.stem}{ext}"
KeyOf(prefix, p, ext) == prefix \o <<"/">> \o Stem(p) \o ext

\* Line 99: url = f"{PUBLIC_URL}/{key}"
UrlOf(key) == PUBLIC_URL \o <<"/">> \o key

\* A slip: a put that leaves an existing object alone.
PutObjectIfAbsent(b, key, obj) ==
    [k \in DOMAIN b \cup {key} |-> IF k \in DOMAIN b THEN b[k] ELSE obj]

\* client.put_object: the object is stored under the key, whatever was there.
PutObject(b, key, obj) ==
    [k \in DOMAIN b \cup {key} |-> IF k = key THEN obj ELSE b[k]]

\* client.delete_object: the key is gone, whether it was there or not.
DeleteObject(b, key) == [k \in DOMAIN b \ {key} |-> b[k]]

---------------------------------------------------------------------------
(* list_objects.                                                           *)

\* The keys of the bucket in the store's order, cut into pages.
RECURSIVE Chunks(_, _)
Chunks(s, n) ==
    IF Len(s) <= n THEN <<s>>
    ELSE <<SubSeq(s, 1, n)>> \o Chunks(SubSeq(s, n + 1, Len(s)), n)

\* paginator.paginate(Bucket=...): one page at least; each page's Contents.
Paginate(b) == Chunks(SortedSeq(DOMAIN b), PageSize)

\* A slip: the first page only (list_objects_v2 without the paginator).
RowsOfFirstPage(pages) ==
    IF pages = <<>> THEN <<>>
    ELSE [i \in 1..Len(Head(pages)) |-> <<"row", Head(pages)[i]>>]

\* The rows lines 108-111 print for the pages given.
RECURSIVE Rows(_)
Rows(pages) ==
    IF pages = <<>> THEN <<>>
    ELSE [i \in 1..Len(Head(pages)) |-> <<"row", Head(pages)[i]>>]
         \o Rows(Tail(pages))

\* A slip: split for rsplit, what follows the first "/".
AfterFirstSlash(url) ==
    LET hits == {i \in 1..Len(url) : url[i] = "/"}
    IN  IF hits = {} THEN url
        ELSE SubSeq(url, (CHOOSE i \in hits : \A j \in hits : i <= j) + 1,
                    Len(url))

\* url.rsplit("/", 1)[-1] (line 178)
LastSegment(url) == SubSeq(url, RFind(url, "/") + 1, Len(url))

---------------------------------------------------------------------------
(* main: one run after another against the same bucket.                    *)

NoArgs ==
    [files |-> <<>>, dir |-> None, prefix |-> DefaultPrefix,
     width |-> DefaultWidth,
     quality |-> DefaultQuality, no_resize |-> FALSE, list |-> FALSE,
     delete |-> None]

InitMain ==
    /\ bucket = <<>>
    /\ runs = 0
    /\ pc = "idle"
    /\ args = NoArgs
    /\ paths = <<>>
    /\ idx = 1
    /\ urls = <<>>
    /\ out = <<>>
    /\ err = <<>>
    /\ ops = <<>>
    /\ status = -1
    /\ raised = FALSE

NoResult == [done |-> FALSE, ok |-> FALSE, size |-> <<0, 0>>]

Init == InitMain /\ rin = <<0, 0, 0>> /\ rout = NoResult

\* No process runs, and one more may start.
Idle == pc = "idle" /\ runs < MaxRuns

\* A new process starts: parse_args returns a (lines 141-153).
Start(a) ==
    /\ runs' = runs + 1
    /\ args' = a
    /\ UNCHANGED <<rin, rout>>

\* The process ends: by returning (status 0), by sys.exit(1), or by an
\* uncaught exception (status 1 and a trace).
Exit(code, exc) ==
    /\ pc' = "exit"
    /\ status' = code
    /\ raised' = exc

\* Lines 155-158: --list, every page read.
RunList ==
    /\ Idle
    /\ \E a \in Args :
        /\ Start(a)
        /\ a.list
        /\ ops' = <<[op |-> "list"]>>
        /\ out' = <<<<"R2 objects:">>>> \o Rows(Paginate(bucket))
        /\ err' = <<>>
        /\ paths' = <<>> /\ idx' = 1 /\ urls' = <<>>
        /\ Exit(0, FALSE)
        /\ UNCHANGED bucket

\* Lines 155-158: --list, the request for page j fails.
RunListError ==
    /\ Idle
    /\ \E a \in Args :
        /\ Start(a)
        /\ a.list
        /\ \E j \in 1..Len(Paginate(bucket)) :
              out' = <<<<"R2 objects:">>>> \o Rows(SubSeq(Paginate(bucket), 1, j - 1))
        /\ ops' = <<[op |-> "list"]>>
        /\ err' = <<>>
        /\ paths' = <<>> /\ idx' = 1 /\ urls' = <<>>
        /\ Exit(1, TRUE)
        /\ UNCHANGED bucket

\* Lines 160-162: --delete KEY.
RunDelete ==
    /\ Idle
    /\ \E a \in Args :
        /\ Start(a)
        /\ ~a.list
        /\ Truthy(a.delete)
        /\ bucket' = DeleteObject(bucket, a.delete)
        /\ ops' = <<[op |-> "delete", key |-> a.delete, ok |-> TRUE]>>
        /\ out' = <<<<"Deleted", a.delete>>>>
        /\ err' = <<>>
        /\ paths' = <<>> /\ idx' = 1 /\ urls' = <<>>
        /\ Exit(0, FALSE)

\* Lines 160-162: --delete KEY, the request fails.
RunDeleteError ==
    /\ Idle
    /\ \E a \in Args :
        /\ Start(a)
        /\ ~a.list
        /\ Truthy(a.delete)
        /\ ops' = <<[op |-> "delete", key |-> a.delete, ok |-> FALSE]>>
        /\ out' = <<>>
        /\ err' = <<>>
        /\ paths' = <<>> /\ idx' = 1 /\ urls' = <<>>
        /\ Exit(1, TRUE)
        /\ UNCHANGED bucket

\* Lines 164-167: nothing collected, help and exit status 1.
RunNoFiles ==
    /\ Idle
    /\ \E a \in Args :
        /\ Start(a)
        /\ ~a.list
        /\ ~Truthy(a.delete)
        /\ LET c == collect_files(a.files, a.dir)
           IN  /\ c.paths = <<>>
               /\ err' = c.err
        /\ ops' = <<>>
        /\ out' = <<<<"help">>>>
        /\ paths' = <<>> /\ idx' = 1 /\ urls' = <<>>
        /\ Exit(1, FALSE)
        /\ UNCHANGED bucket

\* Lines 164-169: files collected, the upload loop begins.
RunCollect ==
    /\ Idle
    /\ \E a \in Args :
        /\ Start(a)
        /\ ~a.list
        /\ ~Truthy(a.delete)
        /\ LET c == collect_files(a.files, a.dir)
           IN  /\ c.paths # <<>>
               /\ paths' = c.paths
               /\ err' = c.err
        /\ ops' = <<>>
        /\ out' = <<>>
        /\ idx' = 1 /\ urls' = <<>>
        /\ pc' = "upload" /\ status' = -1 /\ raised' = FALSE
        /\ UNCHANGED bucket

\* The put record of the file at the loop's position.
PutOf(p, a, ok) ==
    LET r == Prepare(p, a)
    IN  [op |-> "put", key |-> KeyOf(a.prefix, p, r.ext), data |-> r.data,
         ctype |-> r.ctype, ok |-> ok]

\* Lines 170-172: upload_file returns; its url is appended.
UploadFile ==
    /\ pc = "upload"
    /\ idx <= Len(paths)
    /\ Prepare(paths[idx], args).ok
    /\ LET put == PutOf(paths[idx], args, TRUE)
           url == UrlOf(put.key)
       IN  /\ bucket' = PutObject(bucket, put.key,
                                  [data |-> put.data, ctype |-> put.ctype])
           /\ ops' = Append(ops, put)
           /\ out' = Append(out, <<"file", Name(paths[idx]), url>>)
           /\ urls' = Append(urls, url)
    /\ idx' = idx + 1
    /\ UNCHANGED <<runs, pc, args, paths, err, status, raised, rin, rout>>

\* Lines 82-88 raise: the file cannot be read or decoded.
UploadDecodeError ==
    /\ pc = "upload"
    /\ idx <= Len(paths)
    /\ ~Prepare(paths[idx], args).ok
    /\ Exit(1, TRUE)
    /\ UNCHANGED <<bucket, runs, args, paths, idx, urls, out, err, ops,
                   rin, rout>>

\* A slip: the failure of put_object is swallowed and the loop goes on.
UploadPutErrorSwallowed ==
    /\ pc = "upload"
    /\ idx <= Len(paths)
    /\ Prepare(paths[idx], args).ok
    /\ ops' = Append(ops, PutOf(paths[idx], args, FALSE))
    /\ idx' = idx + 1
    /\ UNCHANGED <<bucket, runs, pc, args, paths, urls, out, err, status,
                   raised, rin, rout>>

\* Lines 92-97 raise: put_object fails.
UploadPutError ==
    /\ pc = "upload"
    /\ idx <= Len(paths)
    /\ Prepare(paths[idx], args).ok
    /\ ops' = Append(ops, PutOf(paths[idx], args, FALSE))
    /\ Exit(1, TRUE)
    /\ UNCHANGED <<bucket, runs, args, paths, idx, urls, out, err, rin, rout>>

\* The lines of lines 175-179 for the urls given.
Markdown(us) ==
    <<<<"">>, <<"Markdown:">>>>
    \o [i \in 1..Len(us) |-> <<"md", LastSegment(us[i]), us[i]>>]

\* Lines 174-179: the loop is over, the summary is printed, main returns.
Summary ==
    /\ pc = "upload"
    /\ idx > Len(paths)
    /\ out' = IF urls # <<>> THEN out \o Markdown(urls) ELSE out
    /\ Exit(0, FALSE)
    /\ UNCHANGED <<bucket, runs, args, paths, idx, urls, err, ops, rin, rout>>

\* The process is gone and with it everything but the bucket; the next
\* invocation of the tool finds a fresh interpreter.
NextProcess ==
    /\ pc = "exit"
    /\ runs < MaxRuns
    /\ pc' = "idle"
    /\ args' = NoArgs
    /\ paths' = <<>> /\ idx' = 1 /\ urls' = <<>>
    /\ out' = <<>> /\ err' = <<>> /\ ops' = <<>>
    /\ status' = -1 /\ raised' = FALSE
    /\ UNCHANGED <<bucket, runs, rin, rout>>

Next ==
    \/ RunList
    \/ RunListError
    \/ RunDelete
    \/ RunDeleteError
    \/ RunNoFiles
    \/ RunCollect
    \/ UploadFile
    \/ UploadDecodeError
    \/ UploadPutError
    \/ Summary
    \/ NextProcess

Spec == Init /\ [][Next]_vars

---------------------------------------------------------------------------
(* resize_image on its own: every source size and maximum width.           *)

ResizeInputs ==
    ((1..MaxDim) \X (1..MaxDim) \X (1..MaxDim))
    \cup {<<2400, 1600, 1920>>, <<4000, 1, 1920>>, <<22, 22, 15>>}

InitResize == InitMain /\ rin \in ResizeInputs /\ rout = NoResult

\* resize_image is called on an image of size <<rin[1], rin[2]>>.
ResizeStep ==
    /\ ~rout.done
    /\ LET r == ResizedSize(rin[1], rin[2], rin[3])
       IN  rout' = [done |-> TRUE, ok |-> r.ok, size |-> r.size]
    /\ UNCHANGED <<mainVars, rin>>

SpecResize == InitResize /\ [][ResizeStep]_vars

---------------------------------------------------------------------------
(* Vocabulary of the properties.                                           *)

\* A run is under way or over (not the gap between two processes).
InRun == pc # "idle"

\* The run went past line 164 with files to upload.
UploadRun == InRun /\ paths # <<>>

\* The run is over and raised nothing.
Completed == pc = "exit" /\ ~raised

\* A key or url cut at its last "/".
FolderSegment(k) == SubSeq(k, 1, RFind(k, "/") - 1)

FileSegment(k) == SubSeq(k, RFind(k, "/") + 1, Len(k))

IsPrefixOf(s, t) == Len(s) <= Len(t) /\ SubSeq(t, 1, Len(s)) = s

\* name is base followed by nothing or by one extension (a dot that is
\* not the first character of the name, then characters other than dots).
IsStemOf(base, name) ==
    /\ IsPrefixOf(base, name)
    /\ LET rest == SubSeq(name, Len(base) + 1, Len(name))
       IN  \/ rest = <<>> /\ (RFind(name, ".") <= 1 \/ RFind(name, ".") = Len(name))
           \/ /\ base # <<>>
              /\ Len(rest) > 1
              /\ rest[1] = "."
              /\ \A i \in 2..Len(rest) : rest[i] # "."

JpgExt == <<".", "j", "p", "g">>

\* The positions of ops that hold a put of the key.
PutsTo(k) == {i \in 1..Len(ops) : ops[i].op = "put" /\ ops[i].ok /\ ops[i].key = k}

MaxOf(S) == CHOOSE i \in S : \A j \in S : j <= i

\* The explicit paths of the command line that exist.
ExistingFiles == SelectSeq(args.files, Exists)

\* The eligible entries of a directory: its immediate entries that are
\* files with an image extension.
Eligible(d) == {p \in IterDir(d) : IsFile(p) /\ Lower(Suffix(p)) \in IMAGE_EXTENSIONS}

---------------------------------------------------------------------------
(* Dispatch.                                                               *)

\* C1: with --list the run issues the listing and no delete or put, whatever
\* else is given; with --delete KEY and no --list, for every KEY (the empty
\* string too), the run issues exactly one delete, of KEY, collects no file
\* and issues no put.
C1_DispatchPriority ==
    InRun =>
        /\ args.list =>
              /\ pc = "exit"
              /\ ops = <<[op |-> "list"]>>
              /\ paths = <<>>
        /\ (~args.list /\ args.delete # None) =>
              /\ pc = "exit"
              /\ Len(ops) = 1
              /\ ops[1].op = "delete"
              /\ ops[1].key = args.delete
              /\ paths = <<>>
              /\ err = <<>>

\* C2: with neither --list nor --delete given and nothing collected, the
\* run prints the help, exits with status 1 and calls the store not at all;
\* every other run that raises no error exits with status 0.
C2_ExitStatus ==
    pc = "exit" =>
        IF ~args.list /\ args.delete = None
           /\ collect_files(args.files, args.dir).paths = <<>>
        THEN status = 1 /\ out = <<<<"help">>>> /\ ops = <<>>
        ELSE ~raised => status = 0

---------------------------------------------------------------------------
(* Keys.                                                                   *)

\* C3: the key of every put is prefix "/" stem ext: its part before the
\* last "/" is the --prefix, its part after it is the name of the file under
\* --no-resize and the stem of the file followed by ".jpg" otherwise; and
\* two puts of the same file under the same resize setting, whatever their
\* prefixes (an object stored by an earlier run, a put of this run), have
\* the same part after the last "/".
C3_KeyShape ==
    /\ \A i \in 1..Len(ops) :
          ops[i].op = "put" =>
              LET file == FileSegment(ops[i].key)
                  name == FileSegment(paths[i])
              IN  /\ FolderSegment(ops[i].key) = args.prefix
                  /\ ops[i].key = args.prefix \o <<"/">> \o file
                  /\ ops[i].data.src = paths[i]
                  /\ IF args.no_resize THEN file = name
                     ELSE /\ IsPrefixOf(JpgExt, SubSeq(file, Len(file) - 3, Len(file)))
                          /\ IsStemOf(SubSeq(file, 1, Len(file) - 4), name)
    /\ \A k \in DOMAIN bucket : \A i \in 1..Len(ops) :
          (/\ ops[i].op = "put"
           /\ bucket[k].data.src = ops[i].data.src
           /\ bucket[k].data.fmt = ops[i].data.fmt)
              => FileSegment(k) = FileSegment(ops[i].key)

\* Reached: an object of a.png stored under one prefix by an earlier run,
\* and a put of a.png under another prefix in this run.
C3_Witness ==
    \E k \in DOMAIN bucket : \E i \in 1..Len(ops) :
        /\ ops[i].op = "put" /\ ops[i].ok
        /\ ops[i].data.src = P_a_png
        /\ bucket[k].data = ops[i].data
        /\ FolderSegment(k) # FolderSegment(ops[i].key)
        /\ FileSegment(k) = <<"a">> \o JpgExt

---------------------------------------------------------------------------
(* collect_files.                                                          *)

\* The run was given neither --list nor --delete and called collect_files
\* (line 164).
Collected == InRun /\ ~args.list /\ args.delete = None

\* C4: collect_files returns the eligible entries of the directory, sorted
\* by name, then the explicit paths that exist, in input order, unfiltered
\* and as often as they occur; a missing explicit path is left out with one
\* SKIP line on the error stream, and nothing is raised.
C4_CollectOrder ==
    Collected =>
        /\ paths = (IF args.dir # None /\ IsDir(args.dir)
                    THEN SortedSeq(Eligible(args.dir)) ELSE <<>>)
                   \o ExistingFiles
        /\ err = [i \in 1..Len(SelectSeq(args.files, LAMBDA f : ~Exists(f))) |->
                     <<"SKIP", SelectSeq(args.files, LAMBDA f : ~Exists(f))[i]>>]
        /\ Len(paths) + Len(err) >= Len(args.files)

\* C5: what collect_files takes from an existing directory is an immediate
\* entry of it, a file, with one of the image extensions (case ignored).
C5_DirEntriesAreImageFiles ==
    (Collected /\ args.dir # None /\ IsDir(args.dir)) =>
        \A i \in 1..(Len(paths) - Len(ExistingFiles)) :
            /\ Parent(paths[i]) = args.dir
            /\ IsFile(paths[i])
            /\ Lower(Suffix(paths[i])) \in IMAGE_EXTENSIONS

---------------------------------------------------------------------------
(* The upload loop.                                                        *)

\* The line upload_file prints for a put, and the summary line of its url.
FileLine(i) == <<"file", FileSegment(paths[i]), PUBLIC_URL \o <<"/">> \o ops[i].key>>

SummaryLine(i) ==
    <<"md", FileSegment(ops[i].key), PUBLIC_URL \o <<"/">> \o ops[i].key>>

\* C6: in an upload run the puts are issued one per collected path, in
\* collection order, each after the one before succeeded; when the run ends
\* without error there is exactly one put per path, the output is one line
\* per put, a blank line, the Markdown: header and one line ![name](url) per
\* put in the same order, url being PUBLIC_URL/key and name its last path
\* segment, and the status is 0; missing inputs only add SKIP lines.
C6_UploadsAndSummary ==
    UploadRun =>
        /\ Len(ops) <= Len(paths)
        /\ \A i \in 1..Len(ops) :
              /\ ops[i].op = "put"
              /\ ops[i].data.src = paths[i]
              /\ i < Len(ops) => ops[i].ok
        /\ Completed =>
              /\ Len(ops) = Len(paths)
              /\ \A i \in 1..Len(ops) : ops[i].ok
              /\ status = 0
              /\ Len(out) = 2 * Len(ops) + 2
              /\ \A i \in 1..Len(ops) :
                    /\ out[i] = FileLine(i)
                    /\ out[Len(ops) + 2 + i] = SummaryLine(i)
                    /\ \A c \in 1..Len(out[Len(ops) + 2 + i][2]) :
                          out[Len(ops) + 2 + i][2][c] # "/"
              /\ out[Len(ops) + 1] = <<"">>
              /\ out[Len(ops) + 2] = <<"Markdown:">>
              /\ paths = DirMatches(args.dir) \o ExistingFiles

\* Reached: a.png and the missing m.jpg given together; one SKIP line, a.png
\* uploaded and in the summary.
C6_Witness ==
    /\ UploadRun /\ Completed
    /\ args.files = <<P_m_jpg, P_a_png>>
    /\ args.dir = None
    /\ err = <<<<"SKIP", P_m_jpg>>>>
    /\ Len(ops) = 1
    /\ out[4] = <<"md", <<"a">> \o JpgExt, PUBLIC_URL \o <<"/">> \o args.prefix
                                           \o <<"/", "a">> \o JpgExt>>

\* The object the store should hold under key k after the puts of ops: that
\* of the last put to k.
LastPut(k) == ops[MaxOf(PutsTo(k))]

\* C7: when the decode or the put of the i-th collected file fails, the run
\* ends with a non-zero status; the store was called for the files before
\* it, once each and with success, at most once (the failed put) for file i
\* and never for a later file; the objects of files 1..i-1 are stored and
\* their lines printed; no Markdown summary is printed.
C7_FailureAborts ==
    (UploadRun /\ pc = "exit" /\ raised) =>
        /\ status # 0
        /\ idx <= Len(paths)
        /\ Len(ops) \in {idx - 1, idx}
        /\ \A i \in 1..Len(ops) :
              /\ ops[i].op = "put"
              /\ ops[i].data.src = paths[i]
              /\ ops[i].ok <=> i < idx
        /\ \A i \in 1..(idx - 1) :
              /\ ops[i].key \in DOMAIN bucket
              /\ bucket[ops[i].key] = [data |-> LastPut(ops[i].key).data,
                                       ctype |-> LastPut(ops[i].key).ctype]
        /\ out = [i \in 1..(idx - 1) |-> FileLine(i)]

\* Reached: the second file fails to decode after the first was stored.
C7_Witness ==
    /\ UploadRun /\ pc = "exit" /\ raised
    /\ idx = 2
    /\ Len(ops) = 1
    /\ ops[1].key \in DOMAIN bucket
    /\ Len(out) = 1

\* C8: put detects no conflict: after any number of puts of a run, the
\* object stored under a key this run put to is the one of the last put to
\* that key, whatever the key held before; every successful put has its
\* line in the output and, when the run completes, in the summary.
C8_LastWriteWins ==
    UploadRun =>
        \A i \in 1..Len(ops) :
            ops[i].ok =>
                /\ ops[i].key \in DOMAIN bucket
                /\ bucket[ops[i].key] = [data |-> LastPut(ops[i].key).data,
                                         ctype |-> LastPut(ops[i].key).ctype]
                /\ out[i] = FileLine(i)
                /\ Completed => out[Len(ops) + 2 + i] = SummaryLine(i)

\* Reached: a.png and d/a.jpg, resized, both put to the same key; the run
\* completes and the key holds the later file.
C8_Witness ==
    /\ UploadRun /\ Completed
    /\ Len(ops) = 2
    /\ ops[1].key = ops[2].key
    /\ ops[1].data.src = P_a_png
    /\ ops[2].data.src = P_d_a_jpg
    /\ bucket[ops[1].key].data.src = P_d_a_jpg
    /\ Len(out) = 6

---------------------------------------------------------------------------
(* Listing.                                                                *)

\* The keys of the rows printed.
RowKeys == {out[i][2] : i \in 2..Len(out)}

ListedAll ==
    (InRun /\ args.list /\ ~raised) =>
        /\ out[1] = <<"R2 objects:">>
        /\ \A i \in 2..Len(out) : out[i][1] = "row"
        /\ RowKeys = DOMAIN bucket
        /\ Len(out) = 1 + Cardinality(DOMAIN bucket)

\* C10: a --list run that raises nothing prints the header and then exactly
\* one row per key stored (only the header for an empty bucket), however
\* many pages the listing has, and it leaves the bucket as it was.
C10_ListComplete ==
    /\ []ListedAll
    /\ [][(pc = "idle" /\ args'.list) => bucket' = bucket]_vars

\* Reached: a listing of a bucket of more than one page.
C10_Witness ==
    /\ InRun /\ args.list /\ ~raised
    /\ Len(Paginate(bucket)) >= 2
    /\ Len(out) = 1 + Cardinality(DOMAIN bucket)
    /\ Cardinality(DOMAIN bucket) > PageSize

---------------------------------------------------------------------------
(* resize_image.                                                           *)

\* C9: for every source size w x h and maximum width m >= 1, resize_image
\* produces an image of size (m, h') with h' within one of h*m/w rounded
\* down when w > m, and of size (w, h) when w <= m.
C9_ResizedDimensions ==
    rout.done =>
        LET w == rin[1]
            h == rin[2]
            m == rin[3]
        IN  /\ rout.ok
            /\ IF w > m
               THEN /\ rout.size[1] = m
                    /\ rout.size[2] - ((h * m) \div w) \in {-1, 0, 1}
               ELSE rout.size = <<w, h>>

============================================================================
